---- MODULE Spec2Model ----
(***************************************************************************)
(* A model of dupescout (src/dupescout/dupescout.go): one search run, with *)
(* the main flow (run), the tree walker (search), one producer per         *)
(* submitted file (producePair), the aggregator (consumePairs), the        *)
(* shutdown listener (gracefulShutdown) and the operating system           *)
(* delivering interrupt signals.  The errgroup of the run is modelled by   *)
(* its semaphore count and its first-error slot; Go channels by their      *)
(* buffers and closed flags.                                               *)
(***************************************************************************)
EXTENDS Integers, Sequences, FiniteSets, TLC

\* ------------------------------------------------------------------ bounds
MaxWorkers == 2        \* worker limits 1..MaxWorkers are explored

\* ------------------------------------------------------- program constants
PairsCap == 500        \* make(chan *pair, 500)
ShutdownCap == 1       \* make(chan os.Signal, 1)

\* ------------------------------------------------------------------ inputs
NoErr == [class |-> "nil", path |-> ""]
Err(c, p) == [class |-> c, path |-> p]

\* What the walker and the key generator will find for one file:
\*   kind/skip   de.Type().IsRegular(), c.skipFile(path)
\*   infoErr/size  the outcome of de.Info()
\*   key/keyErr  the outcome of keyGen(path)
FileProfile(kind, skip, infoErr, size, key, keyErr) ==
    [kind |-> kind, skip |-> skip, readErr |-> FALSE, infoErr |-> infoErr,
     size |-> size, key |-> key, keyErr |-> keyErr]

\* Files the walker submits: regular, not filtered, of non-zero size.  The key
\* generator returns a key, the empty key, or an error.
SubmittedProfiles ==
    { FileProfile("file", FALSE, FALSE, 1, "k1", FALSE),
      FileProfile("file", FALSE, FALSE, 1, "k2", FALSE),
      FileProfile("file", FALSE, FALSE, 1, "", FALSE),
      FileProfile("file", FALSE, FALSE, 1, "", TRUE) }

\* Files the walker passes over: empty, filtered, unreadable file
\* information, not a regular file.  Each would pair with "k1" files.
PassedProfiles ==
    { FileProfile("file", FALSE, FALSE, 0, "k1", FALSE),
      FileProfile("file", TRUE, FALSE, 1, "k1", FALSE),
      FileProfile("file", FALSE, TRUE, 1, "k1", FALSE),
      FileProfile("other", FALSE, FALSE, 1, "k1", FALSE) }

FileProfiles == SubmittedProfiles \cup PassedProfiles

\* A directory: skip is c.skipDir(path), readErr the failure of os.ReadDir.
DirProfile(skip, readErr) ==
    [kind |-> "dir", skip |-> skip, readErr |-> readErr, infoErr |-> FALSE,
     size |-> 0, key |-> "", keyErr |-> FALSE]

DirProfiles ==
    { DirProfile(FALSE, FALSE), DirProfile(TRUE, FALSE), DirProfile(FALSE, TRUE) }

Entry(path, depth, p) ==
    [path |-> path, depth |-> depth, kind |-> p.kind, skip |-> p.skip,
     readErr |-> p.readErr, infoErr |-> p.infoErr, size |-> p.size,
     key |-> p.key, keyErr |-> p.keyErr]

\* The walker's test of a file entry: regular, kept by the filter, of
\* non-zero size.
IsSubmitted(e) == e.kind = "file" /\ ~e.skip /\ ~e.infoErr /\ e.size # 0

Tree(pa, pd, pb, pe) ==
    << Entry("/", 0, DirProfile(FALSE, FALSE)),
       Entry("/a", 1, pa),
       Entry("/d", 1, pd),
       Entry("/d/b", 2, pb),
       Entry("/e", 1, pe) >>

\* A tree with two groups of two files each.
WideTree ==
    Tree(FileProfile("file", FALSE, FALSE, 1, "k1", FALSE),
         DirProfile(FALSE, FALSE),
         FileProfile("file", FALSE, FALSE, 1, "k2", FALSE),
         FileProfile("file", FALSE, FALSE, 1, "k1", FALSE))
    \o << Entry("/f", 1, FileProfile("file", FALSE, FALSE, 1, "k2", FALSE)) >>

\* The trees explored, each in the lexical pre-order filepath.WalkDir visits:
\* at most one file is passed over, and beneath a directory that is excluded
\* or unreadable the file is one that would pair with "k1" files outside it.
Trees ==
    { t \in { Tree(pa, DirProfile(FALSE, FALSE), pb, pe) :
                pa \in FileProfiles, pb \in FileProfiles, pe \in FileProfiles } :
        Cardinality({ i \in DOMAIN t : t[i].kind # "dir" /\ ~IsSubmitted(t[i]) }) <= 1 }
    \cup
    { Tree(pa, pd, FileProfile("file", FALSE, FALSE, 1, "k1", FALSE), pe) :
        pa \in FileProfiles, pd \in DirProfiles \ {DirProfile(FALSE, FALSE)},
        pe \in SubmittedProfiles }
    \cup
    { WideTree }

Modes == {"batch", "stream", "none"}

VARIABLES
    tree,          \* the directory tree under c.Path (input, never changes)
    mode,          \* which sink the caller supplied: resultsChan, dupesChan, neither
    workers,       \* c.Workers after c.defaults(): the errgroup's limit
    mainPc,        \* the calling goroutine: GetResults/StreamResults -> run
    ret,           \* the sequence GetResults returned
    retErr,        \* the error the call returned
    gRunning,      \* errgroup: tokens held in g.sem = tasks not yet done
    gErr,          \* errgroup: g.err, set once
    firstErr,      \* history: the first non-nil error a task returned
    walkPc,        \* the walker task (search)
    walkIdx,       \* the entry WalkDir is at
    prodPc,        \* per entry, the producer task (producePair); "skipped" = ended at its check
    pairs,         \* dup.pairs: buffered pairs
    pairsClosed,   \* dup.pairs was closed
    consPc,        \* the aggregator goroutine (consumePairs)
    m,             \* the aggregation map: key -> paths
    consumed,      \* history: the pairs the aggregator received, in order
    streamed,      \* paths sent on dupesChan, in order
    streamCloses,  \* how many times dupesChan was closed
    results,       \* resultsChan: buffered result sequences
    listenerPc,    \* the gracefulShutdown goroutine
    shutBuf,       \* dup.shutdown: signals buffered
    shutClosed,    \* dup.shutdown was closed
    panicked,      \* "none", or the channel whose misuse panicked: the process is gone
    observed,      \* history: some shuttingDown() call returned true
    staleCheck     \* history: shuttingDown() returned false after it returned true

vars == << tree, mode, workers, mainPc, ret, retErr, gRunning, gErr, firstErr, walkPc,
           walkIdx, prodPc, pairs, pairsClosed, consPc, m, consumed, streamed, streamCloses, results,
           listenerPc, shutBuf, shutClosed, panicked, observed, staleCheck >>

inputVars == << tree, mode, workers >>
mainVars == << mainPc, ret, retErr >>
groupVars == << gRunning, gErr, firstErr >>
walkVars == << walkPc, walkIdx >>
pairVars == << pairs, pairsClosed >>
consVars == << consPc, m, consumed, streamed, streamCloses, results >>
shutVars == << listenerPc, shutBuf, shutClosed >>
histVars == << observed, staleCheck >>

Indices == 1..Len(tree)

\* No goroutine has panicked: the process is running.
Alive == panicked = "none"
KeySet == {"k1", "k2", ""}

\* ------------------------------------------------------------ construction
\* newDupeScout: a fresh group with its limit, an empty pair channel and an
\* empty shutdown channel; nothing is running.
newDupeScout ==
    /\ gRunning = 0
    /\ gErr = NoErr
    /\ pairs = << >>
    /\ pairsClosed = FALSE
    /\ shutBuf = 0
    /\ shutClosed = FALSE

Init ==
    /\ tree \in Trees
    /\ mode \in Modes
    /\ workers \in 1..MaxWorkers
    /\ mainPc = "start"
    /\ ret = << >>
    /\ retErr = NoErr
    /\ newDupeScout
    /\ walkPc = "idle"
    /\ walkIdx = 1
    /\ prodPc = [i \in 1..Len(tree) |-> "none"]
    /\ consPc = "idle"
    /\ m = [k \in KeySet |-> << >>]
    /\ consumed = << >>
    /\ firstErr = NoErr
    /\ streamed = << >>
    /\ streamCloses = 0
    /\ results = << >>
    /\ listenerPc = "idle"
    /\ panicked = "none"
    /\ observed = FALSE
    /\ staleCheck = FALSE


\* ------------------------------------------------------- shutdown channel
\* shuttingDown(): select { case <-dup.shutdown: true; default: false }.
\* The receive succeeds when a signal is buffered or the channel is closed.
shuttingDown == shutBuf > 0 \/ shutClosed

\* The channel after that select: a buffered signal it received is gone.
shutdownAfterCheck == IF shutBuf > 0 THEN shutBuf - 1 ELSE shutBuf

\* One call of shuttingDown() by the walker or by a producer.
Check ==
    /\ shutBuf' = shutdownAfterCheck
    /\ observed' = (observed \/ shuttingDown)
    /\ staleCheck' = (staleCheck \/ (observed /\ ~shuttingDown))

\* gracefulShutdown: signal.Notify(shutdown, SIGINT, SIGTERM)
GracefulShutdownNotify ==
    /\ Alive
    /\ listenerPc = "start"
    /\ listenerPc' = "recv"
    /\ UNCHANGED << inputVars, mainVars, groupVars, walkVars, prodPc, pairVars,
                    consVars, shutBuf, shutClosed, panicked, histVars >>

\* gracefulShutdown: <-shutdown
GracefulShutdownRecv ==
    /\ Alive
    /\ listenerPc = "recv"
    /\ shutBuf > 0
    /\ shutBuf' = shutBuf - 1
    /\ listenerPc' = "close"
    /\ UNCHANGED << inputVars, mainVars, groupVars, walkVars, prodPc, pairVars,
                    consVars, shutClosed, panicked, histVars >>

\* gracefulShutdown: log.Println(...); close(shutdown)
GracefulShutdownClose ==
    /\ Alive
    /\ listenerPc = "close"
    /\ shutClosed' = TRUE
    /\ listenerPc' = "done"
    /\ UNCHANGED << inputVars, mainVars, groupVars, walkVars, prodPc, pairVars,
                    consVars, shutBuf, panicked, histVars >>

\* The operating system delivers SIGINT or SIGTERM.  os/signal forwards it to
\* every channel registered by signal.Notify with a non-blocking send
\* (select { case c <- sig: default: }): buffered when there is room, dropped
\* when the buffer is full, a panic when the channel has been closed.
SignalArrives ==
    /\ Alive
    /\ listenerPc \in {"recv", "close", "done"}
    /\ IF shutClosed
         THEN panicked' = "shutdown" /\ shutBuf' = shutBuf
         ELSE /\ panicked' = panicked
              /\ shutBuf' = IF shutBuf < ShutdownCap THEN shutBuf + 1 ELSE shutBuf
    /\ UNCHANGED << inputVars, mainVars, groupVars, walkVars, prodPc, pairVars,
                    consVars, listenerPc, shutClosed, histVars >>

\* ---------------------------------------------------------------- errgroup
\* A faulty variant of KeepFirst: a later error replaces the one kept.
KeepLast(cur, err) == IF err # NoErr THEN err ELSE cur

\* errgroup: g.errOnce.Do(func() { g.err = err }) for a task's non-nil error.
KeepFirst(cur, err) == IF cur = NoErr THEN err ELSE cur

\* A task submitted with g.Go returns err: the first non-nil error is kept
\* (errOnce), the semaphore token is released and the wait group decremented.
TaskDone(err) ==
    /\ gRunning' = gRunning - 1
    /\ gErr' = KeepFirst(gErr, err)
    /\ firstErr' = IF firstErr = NoErr THEN err ELSE firstErr

\* ------------------------------------------------------------------ walker
\* The entry WalkDir goes to when the subtree of entry i is not descended into.
SkipSubtree(i) ==
    LET later == { j \in Indices : j > i /\ tree[j].depth <= tree[i].depth }
    IN  IF later = {} THEN Len(tree) + 1
        ELSE CHOOSE j \in later : \A k \in later : j <= k

\* search: if de.IsDir() && c.skipDir(path) { return filepath.SkipDir }
SkipsDir(e) == e.kind = "dir" /\ e.skip

\* A faulty variant of PassesOver: an empty file is not passed over.
PassesOverNoSize(e) == e.infoErr

\* search: fi, err := de.Info(); if err != nil || fi.Size() == 0 { return nil }
PassesOver(e) == e.infoErr \/ e.size = 0

\* The callback returned nil on the first call for entry e: WalkDir reads a
\* directory (and calls back again when os.ReadDir failed) or moves on.
WalkContinue(e) ==
    IF e.kind = "dir" /\ e.readErr
      THEN walkPc' = "readerr" /\ walkIdx' = walkIdx
      ELSE walkPc' = "visit" /\ walkIdx' = walkIdx + 1

\* search: the WalkDir callback for (path, de, nil), up to the g.Go call.
SearchVisit ==
    /\ Alive
    /\ walkPc = "visit"
    /\ walkIdx <= Len(tree)
    /\ Check
    /\ LET e == tree[walkIdx] IN
         IF shuttingDown THEN WalkContinue(e)
         ELSE IF SkipsDir(e)
           THEN walkPc' = "visit" /\ walkIdx' = SkipSubtree(walkIdx)
         ELSE IF e.kind = "file" /\ ~e.skip
           THEN IF PassesOver(e)
                  THEN WalkContinue(e)
                  ELSE walkPc' = "submit" /\ walkIdx' = walkIdx
         ELSE WalkContinue(e)
    /\ UNCHANGED << inputVars, mainVars, groupVars, prodPc, pairVars, consVars,
                    listenerPc, shutClosed, panicked >>

\* A faulty variant of SearchReadErr: the callback returns nil for the error.
SearchReadErrIgnored ==
    /\ Alive
    /\ walkPc = "readerr"
    /\ Check
    /\ walkPc' = "visit"
    /\ walkIdx' = SkipSubtree(walkIdx)
    /\ UNCHANGED << inputVars, mainVars, groupVars, prodPc, pairVars, consVars,
                    listenerPc, shutClosed, panicked >>

\* search: the second WalkDir callback for a directory, (path, de, err) with
\* the os.ReadDir error.  nil (shutting down) lets WalkDir go on with the
\* entries read (none); the error aborts the walk and is the task's error.
SearchReadErr ==
    /\ Alive
    /\ walkPc = "readerr"
    /\ Check
    /\ IF shuttingDown
         THEN /\ walkPc' = "visit"
              /\ walkIdx' = SkipSubtree(walkIdx)
              /\ UNCHANGED groupVars
         ELSE /\ walkPc' = "done"
              /\ walkIdx' = walkIdx
              /\ TaskDone(Err("walk", tree[walkIdx].path))
    /\ UNCHANGED << inputVars, mainVars, prodPc, pairVars, consVars,
                    listenerPc, shutClosed, panicked >>

\* A faulty variant of SearchSubmit: the producer starts without a token of
\* the group's semaphore.
SearchSubmitNoLimit ==
    /\ Alive
    /\ walkPc = "submit"
    /\ gRunning' = gRunning + 1
    /\ prodPc' = [prodPc EXCEPT ![walkIdx] = "check"]
    /\ walkPc' = "visit"
    /\ walkIdx' = walkIdx + 1
    /\ UNCHANGED << inputVars, mainVars, gErr, firstErr, pairVars, consVars, shutVars,
                    panicked, histVars >>

\* search: dup.g.Go(func() error { return dup.producePair(...) }).  Go blocks
\* until the group's semaphore has a free token.
SearchSubmit ==
    /\ Alive
    /\ walkPc = "submit"
    /\ gRunning < workers
    /\ gRunning' = gRunning + 1
    /\ prodPc' = [prodPc EXCEPT ![walkIdx] = "check"]
    /\ walkPc' = "visit"
    /\ walkIdx' = walkIdx + 1
    /\ UNCHANGED << inputVars, mainVars, gErr, firstErr, pairVars, consVars, shutVars,
                    panicked, histVars >>

\* search: WalkDir has no entry left and returns nil, the walker task ends.
SearchReturn ==
    /\ Alive
    /\ walkPc = "visit"
    /\ walkIdx > Len(tree)
    /\ walkPc' = "done"
    /\ TaskDone(NoErr)
    /\ UNCHANGED << inputVars, mainVars, walkIdx, prodPc, pairVars, consVars,
                    shutVars, panicked, histVars >>

\* ---------------------------------------------------------------- producer
\* producePair: if dup.shuttingDown() { return nil }
ProducePairCheck(f) ==
    /\ Alive
    /\ prodPc[f] = "check"
    /\ Check
    /\ IF shuttingDown
         THEN prodPc' = [prodPc EXCEPT ![f] = "skipped"] /\ TaskDone(NoErr)
         ELSE prodPc' = [prodPc EXCEPT ![f] = "keygen"] /\ UNCHANGED groupVars
    /\ UNCHANGED << inputVars, mainVars, walkVars, pairVars, consVars,
                    listenerPc, shutClosed, panicked >>


\* A faulty variant of ProducePairKeyGen: the generator's error is dropped, the task
\* returns nil.
ProducePairKeyGenSwallow(f) ==
    /\ Alive
    /\ prodPc[f] = "keygen"
    /\ prodPc' = [prodPc EXCEPT ![f] = "done"]
    /\ IF tree[f].keyErr
         THEN TaskDone(NoErr) /\ UNCHANGED << pairs, panicked >>
         ELSE IF tree[f].key = ""
           THEN TaskDone(Err("emptykey", tree[f].path)) /\ UNCHANGED << pairs, panicked >>
         ELSE /\ ~pairsClosed
              /\ pairs' = Append(pairs, [key |-> tree[f].key, path |-> tree[f].path])
              /\ TaskDone(NoErr)
              /\ panicked' = panicked
    /\ UNCHANGED << inputVars, mainVars, walkVars, pairsClosed, consVars, shutVars,
                    histVars >>

\* A faulty variant of ProducePairKeyGen: the empty key is not rejected.
ProducePairKeyGenNoEmptyCheck(f) ==
    /\ Alive
    /\ prodPc[f] = "keygen"
    /\ prodPc' = [prodPc EXCEPT ![f] = "done"]
    /\ IF tree[f].keyErr
         THEN TaskDone(Err("keygen", tree[f].path)) /\ UNCHANGED << pairs, panicked >>
         ELSE /\ ~pairsClosed
              /\ pairs' = Append(pairs, [key |-> tree[f].key, path |-> tree[f].path])
              /\ TaskDone(NoErr)
              /\ panicked' = panicked
    /\ UNCHANGED << inputVars, mainVars, walkVars, pairsClosed, consVars, shutVars,
                    histVars >>

\* producePair after the check: key, err := keyGen(path); the generator's
\* error or the empty-key error is the task's error; otherwise
\* dup.pairs <- &pair{key, path}; return nil.  The send blocks while the
\* buffer is full and panics on a closed channel.
ProducePairKeyGen(f) ==
    /\ Alive
    /\ prodPc[f] = "keygen"
    /\ IF tree[f].keyErr
         THEN /\ prodPc' = [prodPc EXCEPT ![f] = "done"]
              /\ TaskDone(Err("keygen", tree[f].path))
              /\ UNCHANGED << pairs, panicked >>
         ELSE IF tree[f].key = ""
           THEN /\ prodPc' = [prodPc EXCEPT ![f] = "done"]
                /\ TaskDone(Err("emptykey", tree[f].path))
                /\ UNCHANGED << pairs, panicked >>
         ELSE IF pairsClosed
           THEN panicked' = "pairs" /\ UNCHANGED << prodPc, pairs, groupVars >>
         ELSE /\ Len(pairs) < PairsCap
              /\ pairs' = Append(pairs, [key |-> tree[f].key, path |-> tree[f].path])
              /\ prodPc' = [prodPc EXCEPT ![f] = "done"]
              /\ TaskDone(NoErr)
              /\ panicked' = panicked
    /\ UNCHANGED << inputVars, mainVars, walkVars, pairsClosed, consVars, shutVars, histVars >>


\* A faulty variant of StreamSends: the whole group is sent with every pair.
StreamSendsGroup(paths, path) == paths \o << path >>

\* A faulty variant of StreamSends: the first path of a group is never sent.
StreamSendsNoFirst(paths, path) == << path >>

\* -------------------------------------------------------------- aggregator
\* consumePairs, streaming: what is sent on dupesChan for a pair whose key
\* is already stored with paths: the first path if it has not been sent yet,
\* then the pair's path.
StreamSends(paths, path) ==
    (IF Len(paths) = 1 THEN << paths[1] >> ELSE << >>) \o << path >>

\* A faulty variant of Stored: the new path is put in front of the group.
StoredFront(paths, path) == << path >> \o paths

\* consumePairs: the group stored for a key: append(paths, p.path), or
\* []string{p.path} for a new key.
Stored(paths, path) == Append(paths, path)

\* consumePairs: one iteration of for p := range dup.pairs.  A send on a
\* closed dupesChan panics.
ConsumePairsRecv ==
    /\ Alive
    /\ consPc = "loop"
    /\ pairs # << >>
    /\ LET p == Head(pairs)
           paths == m[p.key]
           ok == paths # << >>
           sends == ok /\ mode = "stream"
       IN  /\ pairs' = Tail(pairs)
           /\ m' = [m EXCEPT ![p.key] = Stored(paths, p.path)]
           /\ consumed' = Append(consumed, p)
           /\ IF sends /\ streamCloses > 0
                THEN panicked' = "stream" /\ streamed' = streamed
                ELSE /\ panicked' = panicked
                     /\ streamed' = IF sends THEN streamed \o StreamSends(paths, p.path)
                                    ELSE streamed
    /\ UNCHANGED << inputVars, mainVars, groupVars, walkVars, prodPc, pairsClosed,
                    consPc, streamCloses, results, shutVars, histVars >>

\* The sequences over S in which every element of S occurs once.
Orders(S) ==
    { o \in [1..Cardinality(S) -> S] : \A i, j \in 1..Cardinality(S) : o[i] = o[j] => i = j }

\* A faulty variant of Reported: groups of a single path are reported too.
ReportedAll(paths) == paths

\* processResults, per key: if len(paths) > 1 { res = append(res, paths...) }
Reported(paths) == IF Len(paths) > 1 THEN paths ELSE << >>

\* The reported groups concatenated in the given key order.
RECURSIVE Flatten(_, _)
Flatten(order, mm) ==
    IF order = << >> THEN << >>
    ELSE Reported(mm[Head(order)]) \o Flatten(Tail(order), mm)

\* processResults: m.Range appends every group of more than one path.  The
\* map's iteration order is not specified, so every order of the keys is a
\* possible result.
processResults(mm) ==
    { Flatten(o, mm) : o \in Orders({ k \in DOMAIN mm : mm[k] # << >> }) }

\* A faulty variant of ConsumePairsEnd: the loop ends as soon as the pair
\* channel is empty.
ConsumePairsEndOnEmpty ==
    /\ Alive
    /\ consPc = "loop"
    /\ pairs = << >>
    /\ consPc' = "done"
    /\ IF mode = "stream"
         THEN /\ streamCloses' = streamCloses + 1
              /\ panicked' = IF streamCloses > 0 THEN "stream" ELSE panicked
              /\ results' = results
         ELSE /\ \E r \in processResults(m) : results' = Append(results, r)
              /\ UNCHANGED << streamCloses, panicked >>
    /\ UNCHANGED << inputVars, mainVars, groupVars, walkVars, prodPc, pairVars,
                    m, consumed, streamed, shutVars, histVars >>

\* consumePairs: the range loop ends (channel closed and drained); the
\* streaming sink is closed, or the one batch result is sent.
ConsumePairsEnd ==
    /\ Alive
    /\ consPc = "loop"
    /\ pairs = << >>
    /\ pairsClosed
    /\ consPc' = "done"
    /\ IF mode = "stream"
         THEN /\ streamCloses' = streamCloses + 1
              /\ panicked' = IF streamCloses > 0 THEN "stream" ELSE panicked
              /\ results' = results
         ELSE /\ \E r \in processResults(m) : results' = Append(results, r)
              /\ UNCHANGED << streamCloses, panicked >>
    /\ UNCHANGED << inputVars, mainVars, groupVars, walkVars, prodPc, pairVars,
                    m, consumed, streamed, shutVars, histVars >>

\* --------------------------------------------------------------- main flow
\* A faulty variant of RunLaunch: the aggregator, the listener and the walker
\* are started before the sinks are examined.
RunLaunchUnchecked ==
    /\ Alive
    /\ mainPc = "start"
    /\ consPc' = "loop"
    /\ listenerPc' = "start"
    /\ gRunning < workers
    /\ gRunning' = gRunning + 1
    /\ walkPc' = "visit"
    /\ IF mode = "none"
         THEN retErr' = Err("config", "") /\ mainPc' = "returned"
         ELSE retErr' = retErr /\ mainPc' = "wait"
    /\ UNCHANGED << inputVars, ret, gErr, firstErr, walkIdx, prodPc, pairVars, m,
                    consumed, streamed,
                    streamCloses, results, shutBuf, shutClosed, panicked,
                    histVars >>

\* run, up to dup.g.Go(search): the aggregator for the supplied sink, the
\* shutdown listener and the walker task are started; with neither sink the
\* call returns the configuration error.
RunLaunch ==
    /\ Alive
    /\ mainPc = "start"
    /\ IF mode = "none"
         THEN /\ retErr' = Err("config", "")
              /\ mainPc' = "returned"
              /\ UNCHANGED << consPc, listenerPc, gRunning, walkPc >>
         ELSE /\ consPc' = "loop"
              /\ listenerPc' = "start"
              /\ gRunning < workers
              /\ gRunning' = gRunning + 1
              /\ walkPc' = "visit"
              /\ mainPc' = "wait"
              /\ retErr' = retErr
    /\ UNCHANGED << inputVars, ret, gErr, firstErr, walkIdx, prodPc, pairVars, m,
                    consumed, streamed,
                    streamCloses, results, shutBuf, shutClosed, panicked,
                    histVars >>


\* A faulty variant of RunWait: Wait returns without waiting for the tasks.
RunWaitNoBarrier ==
    /\ Alive
    /\ mainPc = "wait"
    /\ retErr' = gErr
    /\ mainPc' = "close"
    /\ UNCHANGED << inputVars, ret, groupVars, walkVars, prodPc, pairVars, consVars,
                    shutVars, panicked, histVars >>

\* run: err := dup.g.Wait() returns when every submitted task is done.
RunWait ==
    /\ Alive
    /\ mainPc = "wait"
    /\ gRunning = 0
    /\ retErr' = gErr
    /\ mainPc' = "close"
    /\ UNCHANGED << inputVars, ret, groupVars, walkVars, prodPc, pairVars, consVars,
                    shutVars, panicked, histVars >>


\* A faulty variant of RunClose: run closes the streaming sink as well.
RunCloseBoth ==
    /\ Alive
    /\ mainPc = "close"
    /\ pairsClosed' = TRUE
    /\ streamCloses' = IF mode = "stream" THEN streamCloses + 1 ELSE streamCloses
    /\ panicked' = panicked
    /\ mainPc' = IF mode = "batch" THEN "recv" ELSE "returned"
    /\ UNCHANGED << inputVars, ret, retErr, groupVars, walkVars, prodPc, pairs,
                    consPc, m, consumed, streamed, results, shutVars, histVars >>

\* run: close(dup.pairs); return err.  StreamResults returns here,
\* GetResults goes on to receive the result.
RunClose ==
    /\ Alive
    /\ mainPc = "close"
    /\ pairsClosed' = TRUE
    /\ panicked' = IF pairsClosed THEN "pairs" ELSE panicked
    /\ mainPc' = IF mode = "batch" THEN "recv" ELSE "returned"
    /\ UNCHANGED << inputVars, ret, retErr, groupVars, walkVars, prodPc, pairs,
                    consVars, shutVars, histVars >>

\* A faulty variant of GetResultsRecv: after an error the result is not
\* received, an empty sequence is returned.
GetResultsRecvOnSuccess ==
    /\ Alive
    /\ mainPc = "recv"
    /\ IF retErr # NoErr
         THEN ret' = << >> /\ results' = results
         ELSE /\ results # << >>
              /\ ret' = Head(results)
              /\ results' = Tail(results)
    /\ mainPc' = "returned"
    /\ UNCHANGED << inputVars, retErr, groupVars, walkVars, prodPc, pairVars, consPc,
                    m, consumed, streamed, streamCloses, shutVars, panicked, histVars >>

\* GetResults: return <-results, err
GetResultsRecv ==
    /\ Alive
    /\ mainPc = "recv"
    /\ results # << >>
    /\ ret' = Head(results)
    /\ results' = Tail(results)
    /\ mainPc' = "returned"
    /\ UNCHANGED << inputVars, retErr, groupVars, walkVars, prodPc, pairVars, consPc,
                    m, consumed, streamed, streamCloses, shutVars, panicked, histVars >>

\* ------------------------------------------------------------ specification
\* A step of the program's own goroutines.
ProgramStep ==
    \/ RunLaunch
    \/ RunWait
    \/ RunClose
    \/ GetResultsRecv
    \/ SearchVisit
    \/ SearchReadErr
    \/ SearchSubmit
    \/ SearchReturn
    \/ \E f \in Indices : ProducePairCheck(f)
    \/ \E f \in Indices : ProducePairKeyGen(f)
    \/ ConsumePairsRecv
    \/ ConsumePairsEnd
    \/ GracefulShutdownNotify
    \/ GracefulShutdownRecv
    \/ GracefulShutdownClose

Next ==
    \/ ProgramStep
    \/ SignalArrives

Spec == Init /\ [][Next]_vars


\* ================================================================== claims

\* The run is over for the caller: GetResults or StreamResults has returned.
Returned == mainPc = "returned"

\* C1: for every worker limit N >= 1 a run terminates: as long as the call
\* has not returned (and the process has not crashed), some goroutine of
\* the program can take a step, so the walker's submissions never block
\* forever and Wait, the close of the pair channel and the aggregator follow.
C1_NeverBlocksForever == (~Returned /\ Alive) => ENABLED ProgramStep


\* The elements of a sequence.
Range(seq) == { seq[i] : i \in DOMAIN seq }

\* Entry i lies beneath a directory the exclusion rule matches.
Pruned(i) ==
    \E j \in Indices :
        /\ j < i
        /\ tree[j].kind = "dir"
        /\ tree[j].skip
        /\ i < SkipSubtree(j)

\* The accepted, non-zero-size regular files of the tree.
Accepted == { i \in Indices : IsSubmitted(tree[i]) /\ ~Pruned(i) }

\* The accepted files whose key is shared with another accepted file.
SharedKey(S) == { i \in S : \E j \in S : j # i /\ tree[j].key = tree[i].key }

Paths(S) == { tree[i].path : i \in S }

\* C2: in a batch run with no error and no cancellation, the returned
\* sequence contains a path exactly when it is an accepted, non-zero-size
\* regular file whose key is shared with another accepted file, and each
\* such path occurs once.
C2_BatchResultIsDuplicates ==
    (mode = "batch" /\ Returned /\ retErr = NoErr /\ ~observed) =>
        /\ Range(ret) = Paths(SharedKey(Accepted))
        /\ \A i, j \in DOMAIN ret : ret[i] = ret[j] => i = j

\* C2's case: a batch run returned two duplicates and left out a third
\* accepted file whose key is unique.
C2_Witness ==
    /\ mode = "batch" /\ Returned /\ retErr = NoErr /\ ~observed
    /\ Len(ret) = 2
    /\ Cardinality(Accepted) = 3

\* The entries the walk reaches when nothing is cancelled: not beneath an
\* excluded directory, and not after a directory that could not be read.
Walked ==
    { i \in Indices :
        /\ ~Pruned(i)
        /\ ~\E j \in Indices :
              j < i /\ tree[j].kind = "dir" /\ tree[j].readErr /\ ~tree[j].skip /\ ~Pruned(j) }

\* The files for which a pair is produced when nothing is cancelled.
Paired ==
    { i \in Walked : IsSubmitted(tree[i]) /\ ~tree[i].keyErr /\ tree[i].key # "" }

C4_StreamClosedOnceAfterLastSend ==
    mode = "stream" =>
        /\ streamCloses <= 1
        /\ panicked # "stream"
        /\ (streamCloses > 0 => consPc = "done" /\ pairsClosed /\ pairs = << >>)
        /\ (consPc = "done" => streamCloses = 1)
        /\ (Returned /\ Alive /\ consPc # "done") =>
              ENABLED (ConsumePairsRecv \/ ConsumePairsEnd)

\* C4's case: a streaming run that returned an error has sent paths and
\* closed the channel.
C4_Witness ==
    /\ mode = "stream" /\ Returned /\ retErr # NoErr
    /\ streamed # << >>
    /\ streamCloses = 1

\* C5: the cancellation flag is monotonic: once a shuttingDown() call has
\* returned true, no later call in the run returns false.
C5_FlagMonotonic == ~staleCheck

\* C6: once the flag has been observed set, a callback of the walker that
\* starts afterwards submits no producer task and a producer that checks
\* afterwards does not go on to the key generator (stated for worker limits
\* under which a submission can proceed).
C6_NoNewWorkAfterObserved ==
    [][(observed /\ workers > 1) =>
          /\ ~(walkPc = "visit" /\ walkPc' = "submit")
          /\ \A f \in Indices : ~(prodPc[f] = "check" /\ prodPc'[f] = "keygen")]_vars

\* C7: an interrupt delivered after the listener has handled the first one
\* is a no-op: no operation on the shutdown channel fails.
C7_SecondInterruptNoOp == panicked # "shutdown"

\* C8 as stated: StreamResults returns once the pipeline has been launched,
\* without waiting for the walk and the producers: whenever the streaming
\* call is at Wait, Wait can return.
C8_ReturnsOnceLaunched ==
    (mode = "stream" /\ mainPc = "wait" /\ Alive) => ENABLED RunWait

\* C8 amended: StreamResults returns only after the walker task and every
\* submitted producer task have ended and the pair channel has been closed
\* (it does not wait for the aggregator).
C8_ReturnsAfterTasks ==
    (mode = "stream" /\ Returned) =>
        /\ walkPc = "done"
        /\ \A f \in Indices : prodPc[f] \in {"none", "skipped", "done"}
        /\ gRunning = 0
        /\ pairsClosed

\* C8's case: StreamResults has returned after producers ran, while the
\* aggregator still has pairs to consume.
C8_Witness ==
    /\ mode = "stream" /\ Returned
    /\ \E f \in Indices : prodPc[f] = "done"
    /\ consPc = "loop" /\ pairs # << >>

\* C9: if the key generator returned an error for a file whose producer
\* invoked it, the call returns a non-nil error.
C9_KeyGenErrorReturned ==
    (Returned /\ \E f \in Indices : prodPc[f] = "done" /\ tree[f].keyErr) =>
        retErr # NoErr

\* C9's case: a call has returned after the key generator failed for one
\* file and produced a key for another.
C9_Witness ==
    /\ Returned
    /\ \E f \in Indices : prodPc[f] = "done" /\ tree[f].keyErr
    /\ \E f \in Indices : prodPc[f] = "done" /\ tree[f].key # ""

\* The producer of file f took an empty key, returned without an error, from
\* the key generator.
GotEmptyKey(f) == prodPc[f] = "done" /\ ~tree[f].keyErr /\ tree[f].key = ""

\* C10: when the key generator returns an empty key without an error, the
\* producer fails with an error of its own class and sends no pair; no pair
\* with an empty key is on the pair channel or in the aggregation map.
C10_EmptyKeyRejected ==
    /\ \A f \in Indices : GotEmptyKey(f) =>
          /\ gErr # NoErr
          /\ gErr.path = tree[f].path => gErr.class = "emptykey"
          /\ \A i \in DOMAIN pairs : pairs[i].path # tree[f].path
          /\ \A k \in DOMAIN m : tree[f].path \notin Range(m[k])
    /\ \A i \in DOMAIN pairs : pairs[i].key # ""
    /\ m[""] = << >>

\* C10's case: the first error of a run is the empty-key error of a
\* producer, while another file's pair has been aggregated.
C10_Witness ==
    /\ \E f \in Indices : GotEmptyKey(f) /\ gErr = Err("emptykey", tree[f].path)
    /\ \E k \in DOMAIN m : m[k] # << >>


\* The paths of the consumed pairs whose key is the key of another consumed
\* pair.
ConsumedDuplicates ==
    { consumed[i].path : i \in { i \in DOMAIN consumed :
        \E j \in DOMAIN consumed : j # i /\ consumed[j].key = consumed[i].key } }

\* C11: a batch run whose tasks failed still delivers: GetResults is never
\* stuck at the receive of the result, and it returns, with the error, the one
\* sequence the aggregator sent: the paths of the aggregated pairs that share
\* a key, each once.
C11_FailingBatchDelivers ==
    (mode = "batch" /\ retErr # NoErr) =>
        /\ (mainPc = "recv" /\ Alive) =>
              ENABLED (ConsumePairsRecv \/ ConsumePairsEnd \/ GetResultsRecv)
        /\ Len(results) <= 1
        /\ Returned =>
              /\ consPc = "done"
              /\ results = << >>
              /\ Range(ret) = ConsumedDuplicates
              /\ \A i, j \in DOMAIN ret : ret[i] = ret[j] => i = j

\* C11's case: a batch run returned an error together with a group of two.
C11_Witness ==
    /\ mode = "batch" /\ Returned /\ retErr # NoErr
    /\ Len(ret) = 2

\* C12: a zero-size file is never submitted as a producer task; its path is
\* in no pair, in no group, in no batch result and never sent on the
\* streaming channel, whatever its key.
C12_ZeroSizeNeverSubmitted ==
    \A i \in Indices : (tree[i].kind = "file" /\ tree[i].size = 0) =>
        /\ prodPc[i] = "none"
        /\ \A j \in DOMAIN pairs : pairs[j].path # tree[i].path
        /\ \A k \in DOMAIN m : tree[i].path \notin Range(m[k])
        /\ \A j \in DOMAIN results : tree[i].path \notin Range(results[j])
        /\ tree[i].path \notin Range(ret) \cup Range(streamed)

\* C12's case: the walk went past a zero-size file whose key is the key of
\* two files that were returned as duplicates.
C12_Witness ==
    /\ Returned /\ Len(ret) = 2
    /\ \E i \in Indices :
          /\ tree[i].kind = "file" /\ tree[i].size = 0
          /\ \E j \in Accepted : tree[j].key = tree[i].key /\ tree[j].path \in Range(ret)

\* C13: a file beneath a directory the exclusion rule matches is never the
\* entry of a walker callback, never submitted as a producer task, never in
\* the output, and a kept file is reported only with another kept file of its
\* key.
C13_ExcludedNeverVisited ==
    /\ (walkPc \in {"visit", "readerr", "submit"} /\ walkIdx \in Indices) => ~Pruned(walkIdx)
    /\ \A i \in Indices : Pruned(i) =>
          /\ prodPc[i] = "none"
          /\ tree[i].path \notin Range(ret) \cup Range(streamed)
    /\ Range(ret) \cup Range(streamed) \subseteq Paths(SharedKey(Accepted))


\* C14: with neither sink the call returns the configuration error and
\* nothing is ever started: no aggregator, no listener, no walker, no
\* producer, no task in the group; the pair channel stays empty and open.
C14_NoSinkNoWork ==
    mode = "none" =>
        /\ mainPc \in {"start", "returned"}
        /\ Returned => retErr = Err("config", "")
        /\ consPc = "idle" /\ listenerPc = "idle" /\ walkPc = "idle"
        /\ \A f \in Indices : prodPc[f] = "none"
        /\ gRunning = 0
        /\ pairs = << >> /\ ~pairsClosed
        /\ consumed = << >> /\ streamCloses = 0 /\ results = << >>

\* C14's case: a call without a sink has returned.
C14_Witness == mode = "none" /\ Returned /\ retErr.class = "config"

\* The pool tasks that have started and not yet returned.
WalkerRunning == walkPc \in {"visit", "readerr", "submit"}
ProducersRunning == { f \in Indices : prodPc[f] \in {"check", "keygen"} }

\* The pairs the producers have sent.
Sent ==
    { [key |-> tree[f].key, path |-> tree[f].path] :
        f \in { f \in Indices : prodPc[f] = "done" /\ ~tree[f].keyErr /\ tree[f].key # "" } }

\* C15: the pair channel is closed at most once, by the time run has gone
\* past close, and only when the walker and every producer have returned; no
\* producer sends on the closed channel; when the aggregator has delivered
\* the batch result or closed the streaming channel, every pair sent has been
\* consumed.
C15_CloseAfterDrain ==
    /\ panicked # "pairs"
    /\ pairsClosed =>
          /\ ~WalkerRunning /\ walkPc = "done"
          /\ ProducersRunning = {}
          /\ gRunning = 0
    /\ (mainPc \in {"recv", "returned"} /\ mode # "none") => pairsClosed
    /\ consPc = "done" =>
          /\ pairsClosed /\ pairs = << >>
          /\ Range(consumed) = Sent
          /\ Len(consumed) = Cardinality(Sent)

\* C15's case: the aggregator has ended after consuming the pairs of three
\* producers.
C15_Witness ==
    /\ consPc = "done"
    /\ Len(consumed) = 3

\* The tasks that returned a non-nil error.
WalkerFailed == walkPc = "done" /\ walkIdx \in Indices
ProducersFailed ==
    { f \in Indices : prodPc[f] = "done" /\ (tree[f].keyErr \/ tree[f].key = "") }

\* C16: Wait has returned only when every submitted task has returned; the
\* error of the run is the first non-nil error a task returned, whatever
\* failed later, and it is nil exactly when no task failed.
C16_FirstErrorReturned ==
    (mainPc \in {"close", "recv", "returned"} /\ mode # "none") =>
        /\ ~WalkerRunning /\ walkPc = "done"
        /\ ProducersRunning = {}
        /\ retErr = firstErr
        /\ retErr = NoErr <=> (~WalkerFailed /\ ProducersFailed = {})

\* C16's case: a run has returned after two of its tasks failed.
C16_Witness ==
    /\ Returned /\ retErr # NoErr
    /\ Cardinality(ProducersFailed) + (IF WalkerFailed THEN 1 ELSE 0) >= 2

\* C17: the pool tasks executing at once, the walker and the producers
\* together, are at most the worker limit.
C17_AtMostNTasks ==
    /\ (IF WalkerRunning THEN 1 ELSE 0) + Cardinality(ProducersRunning) <= workers
    /\ gRunning = (IF WalkerRunning THEN 1 ELSE 0) + Cardinality(ProducersRunning)

\* C17's case: with a limit above one, as many tasks as the limit allows are
\* executing, the walker among them.
C17_Witness ==
    /\ workers > 1
    /\ WalkerRunning
    /\ 1 + Cardinality(ProducersRunning) = workers


\* The paths consumed with key k, in the order of consumption.
GroupOf(k) ==
    LET sel == SelectSeq(consumed, LAMBDA p : p.key = k)
    IN  [i \in DOMAIN sel |-> sel[i].path]

\* What was sent on the streaming channel for key k, in the order sent.
StreamedOf(k) == SelectSeq(streamed, LAMBDA x : x \in Range(GroupOf(k)))

\* C18: in streaming mode, after every consumed pair and for each key: nothing
\* was sent while the key has one path; from the second pair on, what was
\* sent for the key is its paths in consumption order, each once (the first
\* path went out with the second pair, ahead of it); nothing else is sent.
C18_StreamPerKey ==
    mode = "stream" =>
        /\ \A k \in KeySet :
              StreamedOf(k) = IF Len(GroupOf(k)) >= 2 THEN GroupOf(k) ELSE << >>
        /\ \A i \in DOMAIN streamed : \E k \in KeySet : streamed[i] \in Range(GroupOf(k))

\* C18's case: three pairs of one key were consumed and its three paths
\* sent.
C18_Witness ==
    /\ mode = "stream"
    /\ \E k \in KeySet : Len(GroupOf(k)) = 3 /\ streamed = GroupOf(k)

\* The keys consumed at least twice, and the place of a key's first pair.
GroupKeys == { k \in KeySet : Len(GroupOf(k)) >= 2 }
FirstSeen(k) == CHOOSE i \in DOMAIN consumed :
    consumed[i].key = k /\ \A j \in DOMAIN consumed : consumed[j].key = k => i <= j
PlaceIn(seq, x) == CHOOSE i \in DOMAIN seq : seq[i] = x

\* The sequence is made of the groups of at least two paths, each group
\* contiguous with its paths in consumption order, and of nothing else.
GroupsConcatenated(seq) ==
    /\ Range(seq) = UNION { Range(GroupOf(k)) : k \in GroupKeys }
    /\ \A i, j \in DOMAIN seq : seq[i] = seq[j] => i = j
    /\ \A k \in GroupKeys :
          \E s \in 0..(Len(seq) - Len(GroupOf(k))) :
              SubSeq(seq, s + 1, s + Len(GroupOf(k))) = GroupOf(k)

\* C19 as stated: the batch result is the concatenation of the groups of at
\* least two paths, the groups in the order in which the aggregator first saw
\* their keys, the paths of a group in consumption order.
C19_DiscoveryOrder ==
    (mode = "batch" /\ Returned) =>
        /\ GroupsConcatenated(ret)
        /\ \A k, h \in GroupKeys :
              FirstSeen(k) < FirstSeen(h) =>
                  PlaceIn(ret, GroupOf(k)[1]) < PlaceIn(ret, GroupOf(h)[1])

\* C19 amended: the batch result is the concatenation of the groups of at
\* least two paths, the paths of a group contiguous and in consumption order;
\* the order of the groups is the iteration order of the map.
C19_GroupsInConsumptionOrder ==
    (mode = "batch" /\ Returned) => GroupsConcatenated(ret)

\* C19's case: two groups were returned, the group whose key was seen later
\* ahead of the other.
C19_Witness ==
    /\ mode = "batch" /\ Returned
    /\ Len(ret) = 4
    /\ \E k, h \in GroupKeys :
          /\ FirstSeen(k) < FirstSeen(h)
          /\ PlaceIn(ret, GroupOf(h)[1]) < PlaceIn(ret, GroupOf(k)[1])

\* The filesystem errors of the tree: os.ReadDir fails for a directory that
\* is not excluded, de.Info() fails for a regular file that is not filtered.
ReadFails(i) == tree[i].kind = "dir" /\ ~tree[i].skip /\ tree[i].readErr
InfoFails(i) == tree[i].kind = "file" /\ ~tree[i].skip /\ tree[i].infoErr

\* C20 as stated: when the walk has reached an entry outside every excluded
\* directory for which the traversal reports an error or whose file
\* information cannot be read, the walk was aborted at that entry and the
\* call returns a non-nil error.
C20_AnyErrorAborts ==
    (Returned /\ mode # "none") =>
        \A i \in Indices : (~Pruned(i) /\ walkIdx >= i /\ (ReadFails(i) \/ InfoFails(i))) =>
            /\ walkIdx = i
            /\ retErr # NoErr

\* C20 amended: in a run in which no cancellation was observed, an error the
\* traversal reports for a directory outside every excluded directory aborts
\* the walk there and the call returns a non-nil error; a failure to read a
\* file's information does not: the file is passed over and the walk goes on.
C20_TraversalErrorAborts ==
    (~observed /\ walkPc = "done") =>
        \A i \in Indices : (~Pruned(i) /\ walkIdx >= i) =>
            /\ ReadFails(i) =>
                  /\ walkIdx = i
                  /\ gErr # NoErr
                  /\ Returned => retErr # NoErr
            /\ InfoFails(i) =>
                  /\ walkIdx > i
                  /\ prodPc[i] = "none"

\* C20's case: an uncancelled run went past a file whose information could
\* not be read, was aborted at an unreadable directory and returned the
\* traversal's error.
C20_Witness ==
    /\ ~observed /\ Returned
    /\ walkIdx \in Indices /\ ReadFails(walkIdx)
    /\ retErr = Err("walk", tree[walkIdx].path)
    /\ \E i \in Indices : i < walkIdx /\ InfoFails(i)

====
